---- MODULE Spec2Model ----
(***************************************************************************)
(* The scatter-gather engine of src/sfs/app/app.py: partitioning a dataset *)
(* into one payload per group (run_lambdamap), submitting the payloads to  *)
(* a thread pool (StreamlitExecutor.map), polling the futures              *)
(* (display_progress) and aggregating their results (make_dataframes).     *)
(***************************************************************************)
EXTENDS Integers, Sequences, FiniteSets, TLC

\* ------------------------------------------------------------- bounds
\* Longest dataset (rows) the launch flow is run on.
MaxRows == 3
\* Polling ticks that observe nothing new are cut off once the progress bar
\* has received this many updates (the loop itself is unbounded).
MaxIdleUpdates == 2
\* state.horiz, the forecast horizon (number_input, min_value=1).
Horiz == 1
\* Worker count of the local pool (configuration option maxWorkers).
LocalMaxWorkers == 2
\* Largest number of groups of the datasets the leaderboard is computed for.
MaxTopGroups == 11
\* Number of payloads of the large remote batch (scenario B).
PoolUnits == 1200
\* Retries granted to a failed remote invocation (configuration option
\* retryLimit).
RetryLimit == 1

\* -------------------------------------------------- program constants
\* run_lambdamap: max_workers=min(1000, len(payloads))
LambdaConcurrency == 1000
\* make_dataframes: n_top = 10
n_top == 10

\* The (channel, family, item_id) triples that occur in datasets, listed in
\* ascending (lexicographic) order.
SortedKeys ==
    << <<"c1", "f1", "i1">>, <<"c1", "f1", "i2">>, <<"c2", "f1", "i1">>,
       <<"c2", "f1", "i2">>, <<"c2", "f2", "i1">>, <<"c2", "f2", "i2">>,
       <<"c3", "f1", "i1">>, <<"c3", "f1", "i2">>, <<"c3", "f2", "i1">>,
       <<"c3", "f2", "i2">>, <<"c4", "f1", "i1">>, <<"c4", "f1", "i2">> >>

\* The keys the datasets of the launch flow draw from.
DatasetKeys == SubSeq(SortedKeys, 1, 3)

Demands == {1}

\* Demand values of the datasets the leaderboard is computed for.
TopDemands == {1, 2}

Backends == {"AWS Lambda", "Local"}

\* Values state.backend is looked at with: none yet, the two options of the
\* selectbox, and a value that is neither.
BackendValues == Backends \cup {"None", "Other"}

\* ------------------------------------------------------------ helpers
Min(a, b) == IF a < b THEN a ELSE b

Range(s) == {s[i] : i \in 1..Len(s)}

RECURSIVE Flatten(_)
Flatten(ss) == IF ss = <<>> THEN <<>> ELSE Head(ss) \o Flatten(Tail(ss))

RECURSIVE SumDemand(_)
SumDemand(rows) ==
    IF rows = <<>> THEN 0 ELSE Head(rows).demand + SumDemand(Tail(rows))

\* All orders in which the members of a finite set can be listed.
Orders(S) ==
    {p \in [1..Cardinality(S) -> S] : \A x \in S : \E i \in DOMAIN p : p[i] = x}

\* ---------------------------------------------------------- datasets
\* A dataset row; timestamp is the row's position in the dataset.
Row(k, t, d) ==
    [channel |-> k[1], family |-> k[2], item_id |-> k[3],
     timestamp |-> t, demand |-> d]

Datasets ==
    UNION {
        {[i \in 1..n |-> Row(ks[i], i, ds[i])] :
            ks \in [1..n -> Range(DatasetKeys)], ds \in [1..n -> Demands]}
        : n \in 0..MaxRows}

\* Datasets of about n_top groups, one row per group, the groups met in
\* ascending or in descending key order.
TopDatasets ==
    UNION {
        {[i \in 1..g |->
             Row(SortedKeys[IF desc THEN g + 1 - i ELSE i], i, ds[i])] :
            ds \in [1..g -> TopDemands], desc \in BOOLEAN}
        : g \in (MaxTopGroups - 2)..Min(MaxTopGroups, Len(SortedKeys))}

\* Grouping by two of the three key columns.
GroupKeyTwoCols(r) == <<r.channel, r.family>>

\* GROUP_COLS: the grouping key of a row.
GroupKey(r) == <<r.channel, r.family, r.item_id>>

\* df.groupby(GROUP_COLS, sort=False): the group keys in first-seen order.
RECURSIVE FirstSeenKeys(_, _)
FirstSeenKeys(rows, seen) ==
    IF rows = <<>> THEN <<>>
    ELSE IF GroupKey(Head(rows)) \in seen
         THEN FirstSeenKeys(Tail(rows), seen)
         ELSE <<GroupKey(Head(rows))>> \o
              FirstSeenKeys(Tail(rows), seen \cup {GroupKey(Head(rows))})

\* The rows of one group, in dataset order.
GroupRows(rows, k) ==
    LET InGroup(r) == GroupKey(r) = k IN SelectSeq(rows, InGroup)

\* run_lambdamap, "generate payload": one payload per group.
MakePayloads(rows, horiz) ==
    LET keys == FirstSeenKeys(rows, {})
    IN  [i \in 1..Len(keys) |->
            [dd |-> GroupRows(rows, keys[i]), horiz |-> horiz,
             obj_metric |-> "smape_mean", cv_stride |-> 2]]

\* A pool as large as the batch, without the ceiling.
UncappedWorkers(n) == n

\* max_workers=min(1000, len(payloads))
LambdaMaxWorkers(n) == Min(LambdaConcurrency, n)

\* ------------------------------------------------- unit computation
\* run_cv_select(dd, horiz, freq, ...) -> (df_pred, df_results): the history
\* of the group followed by horiz forecast rows, and one metrics row.
UnitPred(p) ==
    LET dd == p.dd
        last == dd[Len(dd)]
    IN  [i \in 1..Len(dd) |->
            [channel |-> dd[i].channel, family |-> dd[i].family,
             item_id |-> dd[i].item_id, timestamp |-> dd[i].timestamp,
             demand |-> dd[i].demand, type |-> "actual"]]
        \o
        [j \in 1..p.horiz |->
            [channel |-> last.channel, family |-> last.family,
             item_id |-> last.item_id, timestamp |-> last.timestamp + j,
             demand |-> 0, type |-> "fcast"]]

UnitResults(p) ==
    LET r == p.dd[1]
    IN  << [channel |-> r.channel, family |-> r.family, item_id |-> r.item_id,
            model_type |-> "naive"] >>

\* -------------------------------------------------------------- state
VARIABLES
    df,           \* the dataset handed to the launch flow
    backend,      \* state.backend
    pc,           \* position of the script in the launch flow
    exc,          \* the exception that ended the flow, or "none"
    payloads,     \* run_lambdamap's payloads
    local_mode,   \* map's local_mode argument
    max_workers,  \* size of the executor's thread pool
    futs,         \* every future the executor created, in creation order
    wait_for,     \* the Batch: map's list of futures (indices into futs)
    next_p,       \* map's position in payloads
    prev_n_done,  \* display_progress local
    n_done,       \* display_progress local
    pbar,         \* the deltas passed to pbar.update, in call order
    raw_order,    \* the order in which as_completed yielded the futures
    df_results,   \* state.df_results
    df_pred,      \* state.df_pred
    df_top,       \* state.df_top
    assigned,     \* the attributes of state make_dataframes has assigned
    cancel,       \* whether the Batch was cancelled, and what had resolved then
    pool,         \* the large remote batch, by counts
    faults,       \* the submission and the invocations that failed
    script        \* the run of the main script up to the launch

vars ==
    <<df, backend, pc, exc, payloads, local_mode, max_workers, futs, wait_for,
      next_p, prev_n_done, n_done, pbar, raw_order, df_results, df_pred,
      df_top, assigned, cancel, pool, faults, script>>

flowVars ==
    <<df, backend, pc, exc, payloads, local_mode, max_workers, futs, wait_for,
      next_p, prev_n_done, n_done, pbar, raw_order, df_results, df_pred,
      df_top, assigned, cancel, faults, script>>

NotCancelled == [done |-> FALSE, resolved |-> 0]

NoFaults == [submit |-> 0, invoke |-> {}]

\* The run of the script at line 987 when a job is about to be launched: the
\* panel was rendered, the condition read its four operands.
LaunchedScript ==
    [is_valid_file |-> "True", df_loaded |-> TRUE, rendered |-> TRUE,
     launch_button |-> "True",
     read |-> {"is_valid_file", "df", "launch_button", "backend"},
     df2 |-> FALSE]

IdlePool == [max_workers |-> 0, queued |-> 0, running |-> 0, finished |-> 0]

Init ==
    /\ df \in Datasets
    /\ backend \in Backends
    /\ pc = "launch"
    /\ exc = "none"
    /\ payloads = <<>>
    /\ local_mode = FALSE
    /\ max_workers = 0
    /\ futs = <<>>
    /\ wait_for = <<>>
    /\ next_p = 1
    /\ prev_n_done = 0
    /\ n_done = 0
    /\ pbar = <<>>
    /\ raw_order = <<>>
    /\ df_results = <<>>
    /\ df_pred = <<>>
    /\ df_top = <<>>
    /\ assigned = {}
    /\ cancel = NotCancelled
    /\ pool = IdlePool
    /\ faults = NoFaults
    /\ script = LaunchedScript

\* ------------------------------------------------------- main script
\* Session state at the start of a run of the script, after the load panel.
\* state.df is set only for a valid file; a valid file without a dataset is
\* the state left by a load_data call that raised.
MainInit ==
    /\ script \in
          {[is_valid_file |-> v, df_loaded |-> l, rendered |-> FALSE,
            launch_button |-> "undefined", read |-> {}, df2 |-> FALSE] :
              v \in {"None", "True", "False"}, l \in BOOLEAN}
    /\ script.df_loaded => script.is_valid_file = "True"
    /\ df \in IF script.df_loaded THEN Datasets ELSE {<<>>}
    /\ backend \in Backends \cup {"None"}
    /\ pc = "script"
    /\ exc = "none"
    /\ payloads = <<>>
    /\ local_mode = FALSE
    /\ max_workers = 0
    /\ futs = <<>>
    /\ wait_for = <<>>
    /\ next_p = 1
    /\ prev_n_done = 0
    /\ n_done = 0
    /\ pbar = <<>>
    /\ raw_order = <<>>
    /\ df_results = <<>>
    /\ df_pred = <<>>
    /\ df_top = <<>>
    /\ assigned = {}
    /\ cancel = NotCancelled
    /\ pool = IdlePool
    /\ faults = NoFaults

\* Lines 964-982: panel 3 is rendered only for a valid file with a dataset;
\* rendering it assigns state.backend from the selectbox and binds
\* launch_button to the button's value. Otherwise launch_button stays unbound.
panel_configure_launch ==
    /\ pc = "script"
    /\ pc' = "condition"
    /\ IF script.is_valid_file = "True" /\ script.df_loaded
       THEN \E b \in Backends, pressed \in {"True", "False"} :
               /\ backend' = b
               /\ script' = [script EXCEPT !.rendered = TRUE,
                                           !.launch_button = pressed]
       ELSE UNCHANGED <<backend, script>>
    /\ UNCHANGED <<df, exc, payloads, local_mode, max_workers, futs, wait_for,
                   next_p, prev_n_done, n_done, pbar, raw_order, df_results,
                   df_pred, df_top, assigned, cancel, pool, faults>>

\* The condition evaluated on all four operands, without short-circuit.
LaunchConditionEager(s, b) ==
    LET all == {"is_valid_file", "df", "launch_button", "backend"}
    IN  IF s.launch_button = "undefined"
        THEN [value |-> FALSE, read |-> all, error |-> "NameError"]
        ELSE [value |-> /\ s.is_valid_file = "True"
                        /\ s.df_loaded
                        /\ s.launch_button = "True"
                        /\ b # "None",
              read |-> all, error |-> "none"]

\* Line 987: state.is_valid_file and isinstance(state.df, pd.DataFrame) and
\* launch_button and state.backend, evaluated left to right; `and` stops at
\* the first falsy operand, and reading an unbound name raises NameError.
LaunchCondition(s, b) ==
    IF s.is_valid_file # "True"
    THEN [value |-> FALSE, read |-> {"is_valid_file"}, error |-> "none"]
    ELSE IF ~s.df_loaded
    THEN [value |-> FALSE, read |-> {"is_valid_file", "df"}, error |-> "none"]
    ELSE IF s.launch_button = "undefined"
    THEN [value |-> FALSE, read |-> {"is_valid_file", "df", "launch_button"},
          error |-> "NameError"]
    ELSE IF s.launch_button # "True"
    THEN [value |-> FALSE, read |-> {"is_valid_file", "df", "launch_button"},
          error |-> "none"]
    ELSE [value |-> b # "None",
          read |-> {"is_valid_file", "df", "launch_button", "backend"},
          error |-> "none"]

\* Line 987: the script enters the launch block, goes on without launching,
\* or ends with the NameError.
launch_condition ==
    /\ pc = "condition"
    /\ LET c == LaunchCondition(script, backend)
       IN  /\ script' = [script EXCEPT !.read = c.read]
           /\ pc' = IF c.error # "none" THEN "raised"
                     ELSE IF c.value THEN "launch" ELSE "idle"
           /\ exc' = c.error
    /\ UNCHANGED <<df, backend, payloads, local_mode, max_workers, futs,
                   wait_for, next_p, prev_n_done, n_done, pbar, raw_order,
                   df_results, df_pred, df_top, assigned, cancel, pool, faults>>

\* ------------------------------------------------------------- launch
\* Lines 988-1001: the branch the launch takes for a value of state.backend.
Dispatch(b) ==
    IF b = "Local" THEN "run_pipeline"
    ELSE IF b = "AWS Lambda" THEN "run_lambdamap"
    ELSE "NotImplementedError"

\* backend 'AWS Lambda': state.df2 = resample(...), then run_lambdamap up to
\* the construction of the executor.
\* ThreadPoolExecutor rejects max_workers <= 0 with ValueError.
run_lambdamap ==
    /\ pc = "launch"
    /\ Dispatch(backend) = "run_lambdamap"
    /\ script' = [script EXCEPT !.df2 = TRUE]
    /\ LET ps == MakePayloads(df, Horiz)
           mw == LambdaMaxWorkers(Len(ps))
       IN  /\ payloads' = ps
           /\ max_workers' = mw
           /\ IF mw <= 0
              THEN pc' = "raised" /\ exc' = "ValueError"
              ELSE pc' = "map" /\ exc' = exc
    /\ local_mode' = FALSE
    /\ UNCHANGED <<df, backend, futs, wait_for, next_p, prev_n_done, n_done,
                   pbar, raw_order, df_results, df_pred, df_top, assigned,
                   cancel, pool, faults>>

\* backend 'Local': run_pipeline(..., backend="futures"), a pool of
\* min(maxWorkers, unitCount) workers running the unit function in-process.
run_pipeline ==
    /\ pc = "launch"
    /\ Dispatch(backend) = "run_pipeline"
    /\ LET ps == MakePayloads(df, Horiz)
       IN  /\ payloads' = ps
           /\ max_workers' = Min(LocalMaxWorkers, Len(ps))
    /\ local_mode' = TRUE
    /\ pc' = "map"
    /\ UNCHANGED <<df, backend, exc, futs, wait_for, next_p, prev_n_done,
                   n_done, pbar, raw_order, df_results, df_pred, df_top,
                   assigned, cancel, pool, faults, script>>

\* ---------------------------------------------------------------- map
\* f = func if local_mode else LambdaFunction(func, ...)
MapFunction(lm) == IF lm THEN "func" ELSE "LambdaFunction"

\* Submitting the next payload but putting its future first in the list.
SubmitPrepend ==
    /\ pc = "map"
    /\ next_p <= Len(payloads)
    /\ futs' = Append(futs, [unit |-> next_p, f |-> MapFunction(local_mode),
                             state |-> "PENDING", exception |-> FALSE])
    /\ wait_for' = <<Len(futs) + 1>> \o wait_for
    /\ next_p' = next_p + 1
    /\ UNCHANGED <<df, backend, pc, exc, payloads, local_mode, max_workers,
                   prev_n_done, n_done, pbar, raw_order, df_results, df_pred,
                   df_top, assigned, cancel, pool, faults, script>>

\* ex.submit(f, *p["args"], **p["kwargs"]) for the next payload: a new
\* PENDING future, appended to wait_for.
Submit ==
    /\ pc = "map"
    /\ next_p <= Len(payloads)
    /\ futs' = Append(futs, [unit |-> next_p, f |-> MapFunction(local_mode),
                             state |-> "PENDING", exception |-> FALSE])
    /\ wait_for' = Append(wait_for, Len(futs) + 1)
    /\ next_p' = next_p + 1
    /\ UNCHANGED <<df, backend, pc, exc, payloads, local_mode, max_workers,
                   prev_n_done, n_done, pbar, raw_order, df_results, df_pred,
                   df_top, assigned, cancel, pool, faults, script>>

\* return wait_for
MapReturn ==
    /\ pc = "map"
    /\ next_p > Len(payloads)
    /\ pc' = "display_progress"
    /\ UNCHANGED <<df, backend, exc, payloads, local_mode, max_workers, futs,
                   wait_for, next_p, prev_n_done, n_done, pbar, raw_order,
                   df_results, df_pred, df_top, assigned, cancel, pool, faults, script>>

\* Recording a failed submission in a future and going on with the rest.
SubmitRaisesStored ==
    /\ pc = "map"
    /\ next_p <= Len(payloads)
    /\ faults.submit = 0
    /\ faults' = [faults EXCEPT !.submit = next_p]
    /\ futs' = Append(futs, [unit |-> next_p, f |-> MapFunction(local_mode),
                             state |-> "FINISHED", exception |-> TRUE])
    /\ wait_for' = Append(wait_for, Len(futs) + 1)
    /\ next_p' = next_p + 1
    /\ UNCHANGED <<df, backend, pc, exc, payloads, local_mode, max_workers,
                   prev_n_done, n_done, pbar, raw_order, df_results, df_pred,
                   df_top, assigned, cancel, pool,
                   script>>

\* ex.submit raises for the next payload: nothing catches the exception, so
\* it leaves the list comprehension and map; the list built so far is
\* dropped, the futures already submitted stay with the executor.
SubmitRaises ==
    /\ pc = "map"
    /\ next_p <= Len(payloads)
    /\ faults.submit = 0
    /\ faults' = [faults EXCEPT !.submit = next_p]
    /\ wait_for' = <<>>
    /\ pc' = "raised"
    /\ exc' = "SubmitError"
    /\ UNCHANGED <<df, backend, payloads, local_mode, max_workers, futs,
                   next_p, prev_n_done, n_done, pbar, raw_order, df_results,
                   df_pred, df_top, assigned, cancel, pool,
                   script>>

\* ------------------------------------------------------- pool workers
Running == {h \in DOMAIN futs : futs[h].state = "RUNNING"}

Pending == {h \in DOMAIN futs : futs[h].state = "PENDING"}

\* A free worker takes the oldest queued work item.
Start ==
    /\ Pending # {}
    /\ Cardinality(Running) < max_workers
    /\ LET h == CHOOSE x \in Pending : \A y \in Pending : x <= y
       IN  futs' = [futs EXCEPT ![h].state = "RUNNING"]
    /\ UNCHANGED <<df, backend, pc, exc, payloads, local_mode, max_workers,
                   wait_for, next_p, prev_n_done, n_done, pbar, raw_order,
                   df_results, df_pred, df_top, assigned, cancel, pool, faults, script>>

\* Resolving a future whatever its state, a resolved one included.
FinishResolved(h, ok) ==
    /\ futs[h].state \in {"RUNNING", "FINISHED"}
    /\ futs' = [futs EXCEPT ![h].state = "FINISHED", ![h].exception = ~ok]
    /\ UNCHANGED <<df, backend, pc, exc, payloads, local_mode, max_workers,
                   wait_for, next_p, prev_n_done, n_done, pbar, raw_order,
                   df_results, df_pred, df_top, assigned, cancel, pool, faults, script>>

\* The unit function returns (ok) or raises; the worker resolves the future.
Finish(h, ok) ==
    /\ h \in Running
    /\ futs' = [futs EXCEPT ![h].state = "FINISHED", ![h].exception = ~ok]
    /\ UNCHANGED <<df, backend, pc, exc, payloads, local_mode, max_workers,
                   wait_for, next_p, prev_n_done, n_done, pbar, raw_order,
                   df_results, df_pred, df_top, assigned, cancel, pool, faults, script>>

\* The remote invocation made by LambdaFunction fails (network, timeout,
\* quota): the exception leaves the callable and the worker stores it in the
\* future.
InvokeFails(h) ==
    /\ h \in Running
    /\ futs[h].f = "LambdaFunction"
    /\ futs' = [futs EXCEPT ![h].state = "FINISHED", ![h].exception = TRUE]
    /\ faults' = [faults EXCEPT !.invoke = @ \cup {h}]
    /\ UNCHANGED <<df, backend, pc, exc, payloads, local_mode, max_workers,
                   wait_for, next_p, prev_n_done, n_done, pbar, raw_order,
                   df_results, df_pred, df_top, assigned, cancel, pool,
                   script>>

\* --------------------------------------------------- display_progress
\* Counting only the futures that hold a result as done.
FutureDoneOnlyResult(fu) == fu.state = "FINISHED" /\ ~fu.exception

\* Future.done()
FutureDone(fu) == fu.state \in {"FINISHED", "CANCELLED"}

\* sum(f.done() for f in wait_for)
CountDone(wf) == Cardinality({i \in 1..Len(wf) : FutureDone(futs[wf[i]])})

\* Updating the bar only when the count went up.
PbarUpdateOnIncrease(bar, diff) == IF diff > 0 THEN Append(bar, diff) ELSE bar

\* pbar.update(diff)
PbarUpdate(bar, diff) == Append(bar, diff)

\* Lines 100-102: pbar = stqdm(...); prev_n_done = 0; n_done = sum(...)
DisplayProgressBegin ==
    /\ pc = "display_progress"
    /\ pbar' = <<>>
    /\ prev_n_done' = 0
    /\ n_done' = CountDone(wait_for)
    /\ pc' = "dp_loop"
    /\ UNCHANGED <<df, backend, exc, payloads, local_mode, max_workers, futs,
                   wait_for, next_p, raw_order, df_results, df_pred, df_top,
                   assigned, cancel, pool, faults, script>>

\* A tick that drops the futures it counted from the list.
DisplayProgressTickConsuming ==
    /\ pc = "dp_loop"
    /\ n_done # Len(wait_for)
    /\ pbar' = PbarUpdate(pbar, n_done - prev_n_done)
    /\ prev_n_done' = 0
    /\ n_done' = 0
    /\ wait_for' = LET NotDone(h) == ~FutureDone(futs[h])
                   IN  SelectSeq(wait_for, NotDone)
    /\ UNCHANGED <<df, backend, pc, exc, payloads, local_mode, max_workers,
                   futs, next_p, raw_order, df_results, df_pred,
                   df_top, assigned, cancel, pool, faults, script>>

\* A tick that forgets to move prev_n_done.
DisplayProgressTickKeepsPrev ==
    /\ pc = "dp_loop"
    /\ n_done # Len(wait_for)
    /\ Len(pbar) < MaxIdleUpdates + MaxRows
    /\ pbar' = PbarUpdate(pbar, n_done - prev_n_done)
    /\ n_done' = CountDone(wait_for)
    /\ UNCHANGED <<df, backend, pc, exc, payloads, local_mode, max_workers,
                   futs, wait_for, next_p, prev_n_done, raw_order, df_results,
                   df_pred, df_top, assigned, cancel, pool, faults, script>>

\* One iteration of the while loop (one polling tick).
DisplayProgressTick ==
    /\ pc = "dp_loop"
    /\ n_done # Len(wait_for)
    /\ \/ Len(pbar) < MaxIdleUpdates
       \/ n_done # prev_n_done
       \/ CountDone(wait_for) # n_done
    /\ pbar' = PbarUpdate(pbar, n_done - prev_n_done)
    /\ prev_n_done' = n_done
    /\ n_done' = CountDone(wait_for)
    /\ UNCHANGED <<df, backend, pc, exc, payloads, local_mode, max_workers,
                   futs, wait_for, next_p, raw_order, df_results, df_pred,
                   df_top, assigned, cancel, pool, faults, script>>

\* Returning without the last update.
DisplayProgressReturnNoUpdate ==
    /\ pc = "dp_loop"
    /\ n_done = Len(wait_for)
    /\ pc' = "make_dataframes"
    /\ UNCHANGED <<df, backend, exc, payloads, local_mode, max_workers, futs,
                   wait_for, next_p, prev_n_done, n_done, pbar, raw_order,
                   df_results, df_pred, df_top, assigned, cancel, pool, faults, script>>

\* Returning after the first count, whatever it is.
DisplayProgressReturnEarly ==
    /\ pc = "dp_loop"
    /\ pbar' = PbarUpdate(pbar, n_done - prev_n_done)
    /\ pc' = "make_dataframes"
    /\ UNCHANGED <<df, backend, exc, payloads, local_mode, max_workers, futs,
                   wait_for, next_p, prev_n_done, n_done, raw_order,
                   df_results, df_pred, df_top, assigned, cancel, pool, faults, script>>

\* The loop condition fails: the last update, and return.
DisplayProgressReturn ==
    /\ pc = "dp_loop"
    /\ n_done = Len(wait_for)
    /\ pbar' = PbarUpdate(pbar, n_done - prev_n_done)
    /\ pc' = "make_dataframes"
    /\ UNCHANGED <<df, backend, exc, payloads, local_mode, max_workers, futs,
                   wait_for, next_p, prev_n_done, n_done, raw_order,
                   df_results, df_pred, df_top, assigned, cancel, pool, faults, script>>

\* ---------------------------------------------------- make_dataframes
\* futures.as_completed(wait_for), called when every future is done: the
\* futures are held in a set, and the finished ones are yielded in the set's
\* iteration order, which is any order.
AsCompleted(wf) == Orders(Range(wf))

\* f.result() raises for a future that ended with an exception or was
\* cancelled.
ResultRaises(fu) == fu.state = "CANCELLED" \/ fu.exception

\* Collecting the prediction frames into results_lst.
ResultsTableFromPred(order) ==
    Flatten([i \in 1..Len(order) |-> UnitPred(payloads[futs[order[i]].unit])])

\* pd.concat(results_lst).reset_index(drop=True)
ResultsTable(order) ==
    Flatten([i \in 1..Len(order) |-> UnitResults(payloads[futs[order[i]].unit])])

\* Building pred_lst back to front.
PredTableReversed(order) ==
    Flatten([i \in 1..Len(order) |->
        UnitPred(payloads[futs[order[Len(order) + 1 - i]].unit])])

\* The concatenated frame turned upside down.
PredTableBackwards(order) ==
    LET t == Flatten([i \in 1..Len(order) |->
                 UnitPred(payloads[futs[order[i]].unit])])
    IN  [i \in 1..Len(t) |-> t[Len(t) + 1 - i]]

\* pd.concat(pred_lst), timestamp index reset into a column
PredTable(order) ==
    Flatten([i \in 1..Len(order) |-> UnitPred(payloads[futs[order[i]].unit])])

\* state.df_pred.query("type == 'actual'")
Hist(pred) == LET IsActual(r) == r.type = "actual" IN SelectSeq(pred, IsActual)

\* .groupby(GROUP_COLS, as_index=False).agg({"demand": sum}): one row per
\* group, groups in ascending key order.
GroupDemand(hist) ==
    LET present == {GroupKey(hist[i]) : i \in 1..Len(hist)}
        IsPresent(k) == k \in present
        keys == SelectSeq(SortedKeys, IsPresent)
    IN  [i \in 1..Len(keys) |->
            [channel |-> keys[i][1], family |-> keys[i][2],
             item_id |-> keys[i][3],
             demand |-> SumDemand(GroupRows(hist, keys[i]))]]

\* Leaving out the sort: the rows stay in the order of the groups.
GroupOrderKept(rows) == rows

\* .sort_values(by="demand", ascending=False): rows of equal demand keep
\* their order (the default sort of numpy orders an array of up to 16 values
\* by insertion).
RECURSIVE SortByDemandDesc(_)
SortByDemandDesc(rows) ==
    IF rows = <<>> THEN <<>>
    ELSE LET rest == SortByDemandDesc(Tail(rows))
             x == Head(rows)
             Before(r) == r.demand > x.demand
             After(r) == r.demand <= x.demand
         IN  SelectSeq(rest, Before) \o <<x>> \o SelectSeq(rest, After)

\* .head(n_top).reset_index(drop=True)
TopRows(hist) ==
    LET sorted == SortByDemandDesc(GroupDemand(hist))
    IN  SubSeq(sorted, 1, Min(n_top, Len(sorted)))

\* df_top.assign(_index=np.arange(n_top)+1): a column of n_top values fits
\* only a frame of n_top rows.
AssignIndexRaises(top) == Len(top) # n_top

\* The whole of make_dataframes. as_completed blocks until every future is
\* done; the first result() that raises ends the function before anything is
\* assigned; pd.concat of no frames raises ValueError; the assignment of the
\* _index column raises after df_results and df_pred were assigned.
make_dataframes ==
    /\ pc = "make_dataframes"
    /\ \A i \in 1..Len(wait_for) : FutureDone(futs[wait_for[i]])
    /\ \E order \in AsCompleted(wait_for) :
         LET bad == {i \in 1..Len(order) : ResultRaises(futs[order[i]])}
             first == CHOOSE i \in bad : \A j \in bad : i <= j
             top == TopRows(Hist(PredTable(order)))
         IN  IF bad # {}
             THEN /\ pc' = "raised"
                  /\ exc' = IF futs[order[first]].state = "CANCELLED"
                            THEN "CancelledError" ELSE "UnitError"
                  /\ UNCHANGED <<raw_order, df_results, df_pred, df_top,
                                 assigned>>
             ELSE IF Len(order) = 0
             THEN /\ pc' = "raised"
                  /\ exc' = "ValueError"
                  /\ UNCHANGED <<raw_order, df_results, df_pred, df_top,
                                 assigned>>
             ELSE /\ raw_order' = order
                  /\ df_results' = ResultsTable(order)
                  /\ df_pred' = PredTable(order)
                  /\ IF AssignIndexRaises(top)
                     THEN /\ pc' = "raised"
                          /\ exc' = "ValueError"
                          /\ assigned' = {"df_results", "df_pred"}
                          /\ UNCHANGED df_top
                     ELSE /\ pc' = "done"
                          /\ exc' = exc
                          /\ assigned' = {"df_results", "df_pred", "df_top"}
                          /\ df_top' = top
    /\ UNCHANGED <<df, backend, payloads, local_mode, max_workers, futs,
                   wait_for, next_p, prev_n_done, n_done, pbar, cancel, pool,
                   faults, script>>

\* The leaderboard part of make_dataframes (lines 879-893) on its own, for
\* batches of about n_top groups: the state is the one make_dataframes has
\* after it assigned state.df_results and state.df_pred.
TopInit ==
    /\ df \in TopDatasets
    /\ backend = "AWS Lambda"
    /\ pc = "df_top"
    /\ exc = "none"
    /\ payloads = MakePayloads(df, Horiz)
    /\ local_mode = FALSE
    /\ max_workers = LambdaMaxWorkers(Len(payloads))
    /\ futs = [i \in 1..Len(payloads) |->
                 [unit |-> i, f |-> MapFunction(local_mode),
                  state |-> "FINISHED", exception |-> FALSE]]
    /\ wait_for = [i \in 1..Len(payloads) |-> i]
    /\ next_p = Len(payloads) + 1
    /\ prev_n_done = 0
    /\ n_done = Len(wait_for)
    /\ pbar = <<Len(wait_for)>>
    /\ raw_order \in {wait_for,
                      [i \in 1..Len(wait_for) |-> wait_for[Len(wait_for) + 1 - i]]}
    /\ df_results = ResultsTable(raw_order)
    /\ df_pred = PredTable(raw_order)
    /\ df_top = <<>>
    /\ assigned = {"df_results", "df_pred"}
    /\ cancel = NotCancelled
    /\ pool = IdlePool
    /\ faults = NoFaults
    /\ script = [LaunchedScript EXCEPT !.df2 = TRUE]

make_df_top ==
    /\ pc = "df_top"
    /\ LET top == TopRows(Hist(df_pred))
       IN  IF AssignIndexRaises(top)
           THEN /\ pc' = "raised"
                /\ exc' = "ValueError"
                /\ UNCHANGED <<df_top, assigned>>
           ELSE /\ pc' = "done"
                /\ exc' = exc
                /\ df_top' = top
                /\ assigned' = assigned \cup {"df_top"}
    /\ UNCHANGED <<df, backend, payloads, local_mode, max_workers, futs,
                   wait_for, next_p, prev_n_done, n_done, pbar, raw_order,
                   df_results, df_pred, cancel, pool, faults, script>>

\* ------------------------------------------------------- cancellation
\* Cancelling the Batch mid-flight: Future.cancel() on every future of the
\* Batch. A future not yet started becomes CANCELLED; a running one is left
\* to complete.
Resolved == {h \in DOMAIN futs : FutureDone(futs[h])}

CancelBatch ==
    /\ pc \in {"display_progress", "dp_loop"}
    /\ ~cancel.done
    /\ Pending \cup Running # {}
    /\ cancel' = [done |-> TRUE, resolved |-> Cardinality(Resolved)]
    /\ futs' = [h \in DOMAIN futs |->
                  IF futs[h].state = "PENDING"
                  THEN [futs[h] EXCEPT !.state = "CANCELLED"]
                  ELSE futs[h]]
    /\ UNCHANGED <<df, backend, pc, exc, payloads, local_mode, max_workers,
                   wait_for, next_p, prev_n_done, n_done, pbar, raw_order,
                   df_results, df_pred, df_top, assigned, pool, faults, script>>

\* ------------------------------------------- the large remote batch
\* Batch sizes below, at and above the ceiling.
PoolSizes == {1, LambdaConcurrency, LambdaConcurrency + 1, PoolUnits}

\* run_lambdamap on n groups, from the construction of its executor of
\* min(1000, len(payloads)) workers on. pool.queued counts the payloads no
\* worker has taken yet, whether map has already submitted them or not, so
\* the counts follow every interleaving of map's submissions with the
\* workers.
PoolInit ==
    /\ df = <<>>
    /\ backend = "AWS Lambda"
    /\ pc = "display_progress"
    /\ exc = "none"
    /\ payloads = <<>>
    /\ local_mode = FALSE
    /\ max_workers = 0
    /\ futs = <<>>
    /\ wait_for = <<>>
    /\ next_p = 1
    /\ prev_n_done = 0
    /\ n_done = 0
    /\ pbar = <<>>
    /\ raw_order = <<>>
    /\ df_results = <<>>
    /\ df_pred = <<>>
    /\ df_top = <<>>
    /\ assigned = {}
    /\ cancel = NotCancelled
    /\ faults = NoFaults
    /\ script = [LaunchedScript EXCEPT !.df2 = TRUE]
    /\ \E n \in PoolSizes :
         pool = [max_workers |-> LambdaMaxWorkers(n),
                 queued |-> n, running |-> 0, finished |-> 0]

\* A free worker thread takes a queued work item and invokes the function.
PoolStart ==
    /\ pool.queued > 0
    /\ pool.running < pool.max_workers
    /\ pool' = [pool EXCEPT !.queued = @ - 1, !.running = @ + 1]
    /\ UNCHANGED flowVars

\* An invocation returns or fails; its worker is free again.
PoolFinish ==
    /\ pool.running > 0
    /\ pool' = [pool EXCEPT !.running = @ - 1, !.finished = @ + 1]
    /\ UNCHANGED flowVars

\* ----------------------------------------------------- specifications
Next ==
    \/ run_lambdamap
    \/ run_pipeline
    \/ Submit
    \/ MapReturn
    \/ Start
    \/ \E h \in DOMAIN futs, ok \in BOOLEAN : Finish(h, ok)
    \/ DisplayProgressBegin
    \/ DisplayProgressTick
    \/ DisplayProgressReturn
    \/ make_dataframes

Spec == Init /\ [][Next]_vars

\* The pool's threads run whenever they can and every unit function ends;
\* the script runs on.
FairSpec ==
    /\ Spec
    /\ WF_vars(Start)
    /\ WF_vars(\E h \in DOMAIN futs, ok \in BOOLEAN : Finish(h, ok))
    /\ WF_vars(Submit) /\ WF_vars(MapReturn)
    /\ WF_vars(run_lambdamap) /\ WF_vars(run_pipeline)
    /\ WF_vars(DisplayProgressBegin)
    /\ WF_vars(DisplayProgressTick)
    /\ WF_vars(DisplayProgressReturn)

SpecCancel == Init /\ [][Next \/ CancelBatch]_vars

SpecFaults ==
    Init /\ [][Next \/ SubmitRaises \/ \E h \in DOMAIN futs : InvokeFails(h)]_vars

SpecMain ==
    MainInit /\ [][panel_configure_launch \/ launch_condition \/ Next]_vars

SpecTop == TopInit /\ [][make_df_top]_vars

PoolNext == PoolStart \/ PoolFinish

SpecPool == PoolInit /\ [][PoolNext]_vars

\* ------------------------------------------------------------- claims
\* The (channel, family, item_id) triple a table row carries.
Triple(r) == <<r.channel, r.family, r.item_id>>

\* The group a future's unit was built from.
UnitKey(h) == Triple(payloads[futs[h].unit].dd[1])

Completed == {h \in DOMAIN futs : futs[h].state = "FINISHED" /\ ~futs[h].exception}

Failed == {h \in DOMAIN futs : futs[h].state = "FINISHED" /\ futs[h].exception}

\* The group keys of a table's rows, a run of rows of one group counted once.
RECURSIVE KeyBlocks(_)
KeyBlocks(rows) ==
    IF rows = <<>> THEN <<>>
    ELSE LET rest == KeyBlocks(Tail(rows))
         IN  IF rest # <<>> /\ Head(rest) = Triple(Head(rows))
             THEN rest
             ELSE <<Triple(Head(rows))>> \o rest

\* C1: once make_dataframes has assigned state.df_results, the table has
\* exactly one row per future that completed successfully, its keys are those
\* futures' groups, and no group key occurs twice.
C1_OneRowPerCompleted ==
    "df_results" \in assigned =>
        /\ Len(df_results) =
               Cardinality({i \in 1..Len(wait_for) : wait_for[i] \in Completed})
        /\ {Triple(df_results[i]) : i \in 1..Len(df_results)} =
               {UnitKey(h) : h \in Completed}
        /\ \A i, j \in 1..Len(df_results) :
               Triple(df_results[i]) = Triple(df_results[j]) => i = j

C1_Witness ==
    /\ "df_results" \in assigned
    /\ Len(df_results) = 3

\* C2: when exactly one unit fails and every other unit completes,
\* make_dataframes still produces the metrics table, holding the rows of the
\* other groups.
C2_OneFailureStillDrains ==
    (/\ pc \in {"done", "raised"}
     /\ Cardinality(Failed) = 1
     /\ Completed \cup Failed = DOMAIN futs)
    =>
        /\ "df_results" \in assigned
        /\ {Triple(df_results[i]) : i \in 1..Len(df_results)} =
               {UnitKey(h) : h \in Completed}

\* C3 as stated: the blocks of the predictions table are in Batch order.
C3_BlocksInBatchOrder ==
    "df_pred" \in assigned =>
        KeyBlocks(df_pred) = [i \in 1..Len(wait_for) |-> UnitKey(wait_for[i])]

\* C3 as the code has it: each unit's rows are one block, and the blocks are
\* in the order in which as_completed yielded the futures, which is some
\* listing of the Batch.
C3_BlocksInYieldOrder ==
    "df_pred" \in assigned =>
        /\ KeyBlocks(df_pred) = [i \in 1..Len(raw_order) |-> UnitKey(raw_order[i])]
        /\ Len(raw_order) = Len(wait_for)
        /\ Range(raw_order) = Range(wait_for)

C3_Witness ==
    /\ "df_pred" \in assigned
    /\ Len(wait_for) = 3
    /\ raw_order # wait_for

\* C4: with the remote executor the number of invocations in flight never
\* exceeds 1000, whatever the size of the batch.
C4_InFlightAtMostCeiling == pool.running <= LambdaConcurrency

C4_Witness ==
    /\ pool.running = LambdaConcurrency
    /\ pool.queued > 0
    /\ pool.finished > 0

\* C5: when map has returned, wait_for holds one future per payload, the i-th
\* future runs the i-th payload, every payload was submitted exactly once,
\* and each future runs the function the mode selects.
C5_OneHandlePerUnitInOrder ==
    pc \in {"display_progress", "dp_loop", "make_dataframes", "done", "raised"} =>
        /\ Len(wait_for) = Len(payloads)
        /\ \A i \in 1..Len(wait_for) : futs[wait_for[i]].unit = i
        /\ \A u \in 1..Len(payloads) :
               Cardinality({h \in DOMAIN futs : futs[h].unit = u}) = 1
        /\ \A h \in DOMAIN futs :
               futs[h].f = IF backend = "Local" THEN "func" ELSE "LambdaFunction"

C5_Witness ==
    /\ pc = "display_progress"
    /\ backend = "AWS Lambda"
    /\ Len(wait_for) = 3

\* C6: the number of payloads equals the number of distinct triples of the
\* dataset, each triple is the key of exactly one payload, and a payload
\* holds exactly the rows of its triple.
C6_OnePayloadPerTriple ==
    pc # "launch" =>
        LET triples == {Triple(df[i]) : i \in 1..Len(df)}
        IN  /\ Len(payloads) = Cardinality(triples)
            /\ \A k \in triples :
                   Cardinality({i \in 1..Len(payloads) :
                                   Triple(payloads[i].dd[1]) = k}) = 1
            /\ \A i \in 1..Len(payloads) :
                   /\ payloads[i].dd # <<>>
                   /\ \A j \in 1..Len(payloads[i].dd) :
                          Triple(payloads[i].dd[j]) = Triple(payloads[i].dd[1])

C6_Witness ==
    /\ pc = "map"
    /\ Len(df) = 3
    /\ Len(payloads) = 2

\* C7 as stated: display_progress on a Batch of no futures never calls
\* pbar.update.
C7_NoUpdateOnEmptyBatch ==
    (pc = "make_dataframes" /\ Len(wait_for) = 0) => pbar = <<>>

\* C7 as the code has it: on a Batch of no futures display_progress never
\* enters the polling loop, and it returns having called pbar.update once,
\* with 0.
C7_OneZeroUpdateOnEmptyBatch ==
    Len(wait_for) = 0 =>
        /\ pc = "dp_loop" => (pbar = <<>> /\ ~ENABLED DisplayProgressTick)
        /\ pc = "make_dataframes" => pbar = <<0>>

C7_Witness ==
    /\ pc = "make_dataframes"
    /\ Len(wait_for) = 0

\* C8 as stated: a polling tick calls pbar.update exactly when the count of
\* done futures went up since the previous tick.
C8_UpdateOnlyOnIncrease ==
    [][DisplayProgressTick => ((pbar' # pbar) <=> (n_done > prev_n_done))]_vars

\* C8 as the code has it: every polling tick calls pbar.update once, with the
\* increase of the count since the previous tick, which is 0 when the count
\* is unchanged.
C8_UpdateOnEveryTick ==
    [][DisplayProgressTick =>
          /\ Len(pbar') = Len(pbar) + 1
          /\ pbar'[Len(pbar')] = n_done - prev_n_done
          /\ pbar'[Len(pbar')] >= 0]_vars

C8_Witness ==
    /\ pc = "dp_loop"
    /\ \E i, j \in 1..Len(pbar) : pbar[i] = 0 /\ pbar[j] > 0

\* C9: display_progress, once called, returns, and it returns only when the
\* count it read equals the size of the Batch and every future is done.
C9_WatchTerminates ==
    /\ (pc = "display_progress") ~> (pc \in {"make_dataframes", "done", "raised"})
    /\ [](pc = "make_dataframes" =>
              /\ n_done = Len(wait_for)
              /\ \A i \in 1..Len(wait_for) :
                     futs[wait_for[i]].state = "FINISHED")

C9_Witness ==
    /\ pc = "make_dataframes"
    /\ Len(wait_for) = 3
    /\ Failed # {}
    /\ Len(pbar) >= 3

\* C10: after a Batch was cancelled with futures still queued, draining
\* returns with the results that had resolved: it does not raise, and the
\* metrics table it produces has no more rows than had resolved when the
\* Batch was cancelled.
C10_CancelledDrainReturns ==
    (/\ cancel.done
     /\ pc \in {"done", "raised"}
     /\ \E h \in DOMAIN futs : futs[h].state = "CANCELLED")
    =>
        /\ exc # "CancelledError" /\ exc # "UnitError"
        /\ "df_results" \in assigned
        /\ Len(df_results) <= cancel.resolved

\* C11: when ex.submit raises for a unit, map ends with that error and hands
\* no Batch to the caller: the flow stops there, display_progress and
\* make_dataframes never run, and no future holds the failure (the unit has
\* no future at all).
C11_SubmitFailureAbortsMap ==
    faults.submit # 0 =>
        /\ pc = "raised" /\ exc = "SubmitError"
        /\ wait_for = <<>>
        /\ \A h \in DOMAIN futs : futs[h].unit # faults.submit
        /\ pbar = <<>>
        /\ assigned = {}

C11_Witness ==
    /\ faults.submit = 3
    /\ Len(futs) = 2
    /\ \E h \in DOMAIN futs : futs[h].state = "FINISHED"

\* C12: a future whose remote invocation failed is not Failed unless the
\* failed attempts made for it (one, the code makes no second) exceed the
\* retry limit.
C12_RetriedBeforeFailed ==
    \A h \in faults.invoke :
        (futs[h].state = "FINISHED" /\ futs[h].exception) => 1 > RetryLimit

\* A step keeps every future, leaves the resolved ones as they are and takes
\* no running one back to the queue.
StaysResolved ==
    \A h \in DOMAIN futs :
        /\ h \in DOMAIN futs'
        /\ futs[h].state \in {"FINISHED", "CANCELLED"} => futs'[h] = futs[h]
        /\ futs[h].state = "RUNNING" => futs'[h].state # "PENDING"

\* A step made while display_progress runs leaves the list wait_for as it
\* is, and a step of display_progress itself (one that moves its position or
\* its locals) changes no future.
WatchStep ==
    pc \in {"display_progress", "dp_loop"} =>
        /\ wait_for' = wait_for
        /\ (<<pc, pbar, prev_n_done, n_done>>'
                # <<pc, pbar, prev_n_done, n_done>>) => futs' = futs

\* C13: a future that is resolved (finished or cancelled) is never changed
\* again by any step of the workers, of display_progress or of
\* make_dataframes, and no future ever leaves the executor or goes back to
\* an earlier state: each future is resolved at most once.
C13_ResolvedOnce ==
    [][StaysResolved]_vars

C13_Witness ==
    /\ pc = "raised" /\ exc = "UnitError"
    /\ Len(futs) = 3
    /\ \E h \in DOMAIN futs : futs[h].state = "FINISHED" /\ futs[h].exception
    /\ \E h \in DOMAIN futs : futs[h].state = "FINISHED" /\ ~futs[h].exception

\* C14: a step of display_progress (one that moves its position or its
\* locals pbar, prev_n_done, n_done) changes no future and leaves the list
\* wait_for as it was, and the list does not change while display_progress
\* runs.
C14_WatchReadsOnly ==
    [][WatchStep]_vars

C14_Witness ==
    /\ pc = "make_dataframes"
    /\ Len(wait_for) = 3
    /\ Len(pbar) >= 4
    /\ \E i \in 1..Len(pbar) : pbar[i] = 2

\* Sum of the deltas passed to pbar.update.
RECURSIVE SumDeltas(_)
SumDeltas(bar) == IF bar = <<>> THEN 0 ELSE Head(bar) + SumDeltas(Tail(bar))

\* C17: every delta passed to pbar.update is non-negative, the deltas never
\* add up to more than the number of futures of the Batch, inside the loop
\* they add up to prev_n_done, and once display_progress has returned they
\* add up to the number of futures exactly.
C17_DeltasAddUpToBatchSize ==
    /\ \A i \in 1..Len(pbar) : pbar[i] >= 0
    /\ SumDeltas(pbar) <= Len(wait_for)
    /\ pc = "dp_loop" => SumDeltas(pbar) = prev_n_done
    /\ pc = "make_dataframes" => SumDeltas(pbar) = Len(wait_for)

C17_Witness ==
    /\ pc = "make_dataframes"
    /\ Len(wait_for) = 3
    /\ Len(pbar) = 5
    /\ \E i \in 1..Len(pbar) : pbar[i] = 0
    /\ \A i \in 1..Len(pbar) : pbar[i] <= 1

\* C20: make_dataframes starts only after display_progress has returned:
\* when the flow stands before make_dataframes the last update was made,
\* every future of the Batch is finished or cancelled, so no result() call
\* waits; and before that point nothing of the drain has been assigned.
C20_DrainStartsAfterWatch ==
    /\ pc = "make_dataframes" =>
          /\ Len(pbar) >= 1
          /\ n_done = Len(wait_for)
          /\ \A i \in 1..Len(wait_for) :
                 futs[wait_for[i]].state \in {"FINISHED", "CANCELLED"}
    /\ pc \in {"launch", "map", "display_progress", "dp_loop", "make_dataframes"}
          => assigned = {} /\ raw_order = <<>>

C20_Witness ==
    /\ pc = "make_dataframes"
    /\ Len(wait_for) = 3
    /\ local_mode
    /\ \E i \in 1..Len(wait_for) : futs[wait_for[i]].exception

\* C18: for a Batch of 1 to 9 groups whose units all returned, once
\* make_dataframes has ended it has not raised and state.df_top holds
\* min(10, k) rows.
C18_SmallBatchLeaderboard ==
    (/\ pc \in {"done", "raised"}
     /\ Len(wait_for) \in 1..(n_top - 1)
     /\ \A i \in 1..Len(wait_for) : futs[wait_for[i]].state = "FINISHED"
     /\ \A i \in 1..Len(wait_for) : ~futs[wait_for[i]].exception)
        => /\ pc = "done"
           /\ "df_top" \in assigned
           /\ Len(df_top) = Min(n_top, Len(wait_for))

\* C19: with the remote backend and a dataset of zero groups the flow never
\* raises: run_lambdamap returns an empty Batch and make_dataframes stores
\* empty tables.
C19_EmptyDatasetCompletes ==
    (backend = "AWS Lambda" /\ df = <<>>) =>
        /\ pc # "raised"
        /\ pc = "done" => df_results = <<>> /\ df_pred = <<>>

\* The rows of one group in a table, in table order.
SplitByKey(rows, k) ==
    LET InGroup(r) == Triple(r) = k IN SelectSeq(rows, InGroup)

\* C15: once make_dataframes has assigned state.df_pred, the rows of the
\* table that carry a unit's group key are exactly the rows that unit
\* returned, in the order in which the unit returned them.
C15_SplitGivesUnitRows ==
    "df_pred" \in assigned =>
        \A i \in 1..Len(wait_for) :
            SplitByKey(df_pred, UnitKey(wait_for[i]))
                = UnitPred(payloads[futs[wait_for[i]].unit])

C15_Witness ==
    /\ "df_pred" \in assigned
    /\ Len(wait_for) = 2
    /\ Len(df) = 3
    /\ GroupKey(df[1]) = GroupKey(df[3])
    /\ GroupKey(df[1]) # GroupKey(df[2])
    /\ raw_order = <<wait_for[2], wait_for[1]>>

\* Position of a group key in the first-seen order of the dataset's groups.
FirstSeenPos(k) ==
    LET keys == FirstSeenKeys(df, {})
    IN  CHOOSE i \in 1..Len(keys) : keys[i] = k

\* The leaderboard holds n_top different groups of the history, each with
\* its cumulative actual demand, in descending order of demand, and no group
\* left out has more demand than a group listed.
TopByDemand ==
    /\ Len(df_top) = n_top
    /\ \A i, j \in 1..Len(df_top) :
           i < j => /\ df_top[i].demand >= df_top[j].demand
                    /\ Triple(df_top[i]) # Triple(df_top[j])
    /\ \A i \in 1..Len(df_top) :
           /\ \E r \in Range(df) : GroupKey(r) = Triple(df_top[i])
           /\ df_top[i].demand = SumDemand(GroupRows(df, Triple(df_top[i])))
    /\ \A r \in Range(df) :
           \/ \E i \in 1..Len(df_top) : Triple(df_top[i]) = GroupKey(r)
           \/ SumDemand(GroupRows(df, GroupKey(r))) <= df_top[n_top].demand

\* C16 as stated: the leaderboard make_dataframes stores holds the top 10
\* groups by cumulative actual demand in descending order, and groups of
\* equal demand stand in first-seen group key order.
C16_TiesInFirstSeenOrder ==
    "df_top" \in assigned =>
        /\ TopByDemand
        /\ \A i, j \in 1..Len(df_top) :
               (i < j /\ df_top[i].demand = df_top[j].demand)
                   => FirstSeenPos(Triple(df_top[i])) < FirstSeenPos(Triple(df_top[j]))

\* C16 amended: the leaderboard make_dataframes stores holds the top 10
\* groups by cumulative actual demand in descending order (nothing is said
\* about the order of groups of equal demand).
C16_TopTenByDemand ==
    "df_top" \in assigned => TopByDemand

C16_Witness ==
    /\ "df_top" \in assigned
    /\ Len(df) = n_top + 1
    /\ GroupKey(df[1]) = SortedKeys[n_top + 1]
    /\ df_top[1].demand = df_top[2].demand
    /\ df_top[1].demand > df_top[n_top].demand
    /\ df_top[n_top].demand = 1
    /\ \E r \in Range(df) : r.demand = 1 /\ GroupKey(r) # Triple(df_top[n_top])

\* The script is inside the launch block or past it.
Launched ==
    \/ pc \in {"launch", "map", "display_progress", "dp_loop",
                "make_dataframes", "done"}
    \/ pc = "raised" /\ exc # "NameError"

\* C21: a job is launched only when the file is valid, a dataset is loaded,
\* the Launch button was pressed in this run and a backend is selected; the
\* condition reads launch_button only in a run that rendered the panel (so
\* it never raises NameError); 'Local' goes to the local pipeline
\* (local_mode), 'AWS Lambda' assigns state.df2 and goes to run_lambdamap;
\* any other value takes the NotImplementedError branch, and futures exist
\* only after one of the two dispatches.
C21_LaunchConditionAndDispatch ==
    /\ Launched =>
          /\ script.is_valid_file = "True"
          /\ script.df_loaded
          /\ script.rendered /\ script.launch_button = "True"
          /\ backend \in Backends
    /\ "launch_button" \in script.read => script.rendered
    /\ exc # "NameError"
    /\ (Launched /\ pc # "launch") =>
          /\ backend = "Local" => local_mode /\ ~script.df2
          /\ backend = "AWS Lambda" => ~local_mode /\ script.df2
    /\ \A b \in BackendValues \ Backends : Dispatch(b) = "NotImplementedError"
    /\ (futs # <<>> \/ payloads # <<>>) =>
          Launched /\ Dispatch(backend) # "NotImplementedError"

C21_Witness ==
    /\ pc = "display_progress"
    /\ backend = "AWS Lambda"
    /\ script.rendered
    /\ script.read = {"is_valid_file", "df", "launch_button", "backend"}
    /\ script.df2
    /\ Len(wait_for) = 2

====
